---------------------------- MODULE Spec2Model ----------------------------
(***************************************************************************)
(* The Erlang code generator of gleam (src/erl.rs): module() lowers a      *)
(* Module (a name and a list of statements) to Erlang source text through  *)
(* a Wadler-style document algebra.  Text is modelled as a sequence of     *)
(* one-character strings, so that identifier mangling, column counting and *)
(* line structure are computed and not assumed.                            *)
(***************************************************************************)
EXTENDS Integers, Sequences, FiniteSets, TLC

(***************************************************************************)
(* Characters and text                                                     *)
(***************************************************************************)
NL == "\n"

Lower == <<"a","b","c","d","e","f","g","h","i","j","k","l","m",
           "n","o","p","q","r","s","t","u","v","w","x","y","z">>

Upper == <<"A","B","C","D","E","F","G","H","I","J","K","L","M",
           "N","O","P","Q","R","S","T","U","V","W","X","Y","Z">>

DigitChars == <<"0","1","2","3","4","5","6","7","8","9">>

\* The characters with codes 91..95, which follow 'Z'.
AfterUpper == <<"[", "\\", "]", "^", "_">>

Range(s) == {s[i] : i \in 1..Len(s)}

is_lowercase(c) == c \in Range(Lower)

is_uppercase(c) == c \in Range(Upper)

is_alphanumeric(c) == c \in Range(Lower) \cup Range(Upper) \cup Range(DigitChars)

IndexIn(s, c) == CHOOSE i \in 1..Len(s) : s[i] = c

to_uppercase(c) == IF is_lowercase(c) THEN Upper[IndexIn(Lower, c)] ELSE c

to_lowercase(c) == IF is_uppercase(c) THEN Lower[IndexIn(Upper, c)] ELSE c

to_lowercase_str(s) == [i \in 1..Len(s) |-> to_lowercase(s[i])]

\* `x as u8 as char` for the codes the generator can produce from 65 upwards.
u8_as_char(x) ==
    LET b == x % 256
    IN  IF b \in 65..90 THEN Upper[b - 64]
        ELSE IF b \in 91..95 THEN AfterUpper[b - 90]
        ELSE IF b \in 97..122 THEN Lower[b - 96]
        ELSE "?"

RECURSIVE Digits(_)
Digits(n) == IF n < 10 THEN <<DigitChars[n + 1]>>
             ELSE Digits(n \div 10) \o <<DigitChars[(n % 10) + 1]>>

\* Display of an integer (isize / usize).
int_to_string(n) == IF n < 0 THEN <<"-">> \o Digits(0 - n) ELSE Digits(n)

\* Display of a float held as whole and fractional digits.
float_to_string(f) == Digits(f.whole) \o <<".">> \o Digits(f.frac)

RECURSIVE Flatten(_)
Flatten(ss) == IF ss = <<>> THEN <<>> ELSE Head(ss) \o Flatten(Tail(ss))

RECURSIVE Intersperse(_, _)
Intersperse(xs, sep) ==
    IF Len(xs) <= 1 THEN xs
    ELSE <<Head(xs), sep>> \o Intersperse(Tail(xs), sep)

(***************************************************************************)
(* heck: word splitting, CamelCase and snake_case                          *)
(***************************************************************************)
\* Segments of s between characters that are not alphanumeric.
RECURSIVE SplitNonAlnum(_, _, _)
SplitNonAlnum(s, i, cur) ==
    IF i > Len(s) THEN <<cur>>
    ELSE IF is_alphanumeric(s[i]) THEN SplitNonAlnum(s, i + 1, Append(cur, s[i]))
    ELSE <<cur>> \o SplitNonAlnum(s, i + 1, <<>>)

\* The words of one segment: a boundary after a lowercase run followed by
\* an uppercase letter, and before the last capital of an uppercase run
\* that is followed by a lowercase letter.
RECURSIVE SegmentWords(_, _, _, _)
SegmentWords(w, i, init, mode) ==
    IF i > Len(w) THEN <<>>
    ELSE IF i = Len(w) THEN <<SubSeq(w, init, Len(w))>>
    ELSE LET c == w[i]
             next == w[i + 1]
             next_mode == IF is_lowercase(c) THEN "Lowercase"
                          ELSE IF is_uppercase(c) THEN "Uppercase"
                          ELSE mode
         IN  IF next_mode = "Lowercase" /\ is_uppercase(next)
             THEN <<SubSeq(w, init, i)>> \o SegmentWords(w, i + 1, i + 1, "Boundary")
             ELSE IF mode = "Uppercase" /\ is_uppercase(c) /\ is_lowercase(next)
             THEN <<SubSeq(w, init, i - 1)>> \o SegmentWords(w, i + 1, i, "Boundary")
             ELSE SegmentWords(w, i + 1, init, next_mode)

RECURSIVE AllWords(_)
AllWords(segs) ==
    IF segs = <<>> THEN <<>>
    ELSE SegmentWords(Head(segs), 1, 1, "Boundary") \o AllWords(Tail(segs))

Words(s) == AllWords(SplitNonAlnum(s, 1, <<>>))

Capitalize(w) ==
    [i \in 1..Len(w) |-> IF i = 1 THEN to_uppercase(w[i]) ELSE to_lowercase(w[i])]

to_camel_case(s) ==
    LET ws == Words(s) IN Flatten([i \in 1..Len(ws) |-> Capitalize(ws[i])])

to_snake_case(s) ==
    LET ws == Words(s)
    IN  Flatten(Intersperse([i \in 1..Len(ws) |-> to_lowercase_str(ws[i])], <<"_">>))

(***************************************************************************)
(* The layout engine (crate::pretty): documents and their rendering        *)
(***************************************************************************)
nil == [k |-> "Nil"]

line == [k |-> "Line"]

text(s) == [k |-> "Text", s |-> s]

break_(broken, unbroken) == [k |-> "Break", broken |-> broken, unbroken |-> unbroken]

delim(d) == break_(d, d \o <<" ">>)

\* A translation that hit unimplemented!(): the panic unwinds through every
\* caller, so it absorbs every combinator applied to it.  Its payload is
\* the message of the macro, the same at every place the macro is written.
Panic == [k |-> "Panic", msg |-> "not yet implemented"]

IsPanic(d) == d.k = "Panic"

append(a, b) == IF IsPanic(a) \/ IsPanic(b) THEN Panic
                ELSE [k |-> "Cons", left |-> a, right |-> b]

nest(i, d) == IF IsPanic(d) THEN Panic ELSE [k |-> "Nest", i |-> i, doc |-> d]

nest_current(d) == IF IsPanic(d) THEN Panic ELSE [k |-> "NestCurrent", doc |-> d]

group(d) == IF IsPanic(d) THEN Panic ELSE [k |-> "Group", doc |-> d]

surround(d, open, closed) == append(append(text(open), d), text(closed))

\* Vec<Document>::to_doc: the concatenation of the documents, in order.
RECURSIVE concat_from(_, _)
concat_from(acc, ds) ==
    IF ds = <<>> THEN acc ELSE concat_from(append(acc, Head(ds)), Tail(ds))

concat(ds) == concat_from(nil, ds)

Spaces(n) == [i \in 1..n |-> " "]

Entry(indent, mode, doc) == [indent |-> indent, mode |-> mode, doc |-> doc]

\* One document of the fits loop, with `limit` columns left: "Yes" when the
\* line ends inside it (a Line, or a Break in a broken group), "No" when the
\* columns run out, "Go" with the columns left when the loop goes on to the
\* documents that follow.
RECURSIVE fits_doc(_, _, _)
fits_doc(limit, mode, d) ==
    IF limit < 0 THEN [v |-> "No", limit |-> limit]
    ELSE CASE d.k = "Nil" -> [v |-> "Go", limit |-> limit]
           [] d.k = "Line" -> [v |-> "Yes", limit |-> limit]
           [] d.k = "Nest" -> fits_doc(limit, mode, d.doc)
           [] d.k = "NestCurrent" -> fits_doc(limit, mode, d.doc)
           [] d.k = "Group" -> fits_doc(limit, "Unbroken", d.doc)
           [] d.k = "Text" -> [v |-> "Go", limit |-> limit - Len(d.s)]
           [] d.k = "Break" ->
                IF mode = "Broken" THEN [v |-> "Yes", limit |-> limit]
                ELSE [v |-> "Go", limit |-> limit - Len(d.unbroken)]
           [] d.k = "Cons" ->
                LET l == fits_doc(limit, mode, d.left)
                IN  IF l.v = "Go" THEN fits_doc(l.limit, mode, d.right) ELSE l

\* Whether the rest of the current line, the documents `docs` in order, stays
\* within `limit` columns.
RECURSIVE fits(_, _)
fits(limit, docs) ==
    IF limit < 0 THEN FALSE
    ELSE IF docs = <<>> THEN TRUE
    ELSE LET r == fits_doc(limit, Head(docs).mode, Head(docs).doc)
         IN  CASE r.v = "Yes" -> TRUE
               [] r.v = "No" -> FALSE
               [] r.v = "Go" -> fits(r.limit, Tail(docs))

\* The rendering loop on one document: st is the buffer and the current
\* column, `rest` the documents still to be rendered after this one.
RECURSIVE fmt(_, _, _, _, _, _)
fmt(st, limit, indent, mode, d, rest) ==
    CASE d.k = "Nil" -> st
      [] d.k = "Line" ->
           [b |-> st.b \o <<NL>> \o Spaces(indent), width |-> indent]
      [] d.k = "Break" ->
           IF mode = "Unbroken"
           THEN [b |-> st.b \o d.unbroken, width |-> st.width + Len(d.unbroken)]
           ELSE [b |-> st.b \o d.broken \o <<NL>> \o Spaces(indent), width |-> indent]
      [] d.k = "Text" -> [b |-> st.b \o d.s, width |-> st.width + Len(d.s)]
      [] d.k = "Cons" ->
           LET l == fmt(st, limit, indent, mode, d.left,
                        <<Entry(indent, mode, d.right)>> \o rest)
           \* (the test only fixes the order of evaluation: left, then right)
           IN  IF l.width < 0 THEN l ELSE fmt(l, limit, indent, mode, d.right, rest)
      [] d.k = "Nest" -> fmt(st, limit, indent + d.i, mode, d.doc, rest)
      [] d.k = "NestCurrent" -> fmt(st, limit, st.width, mode, d.doc, rest)
      [] d.k = "Group" ->
           IF fits(limit - st.width, <<Entry(indent, "Unbroken", d.doc)>> \o rest)
           THEN fmt(st, limit, indent, "Unbroken", d.doc, rest)
           ELSE fmt(st, limit, indent, "Broken", d.doc, rest)

format(limit, doc) ==
    fmt([b |-> <<>>, width |-> 0], limit, 0, "Unbroken", group(doc), <<>>).b

(***************************************************************************)
(* The abstract syntax tree (crate::ast, crate::pattern)                   *)
(***************************************************************************)
Local == [k |-> "Local"]

ModuleScope == [k |-> "Module"]

Constant(value) == [k |-> "Constant", value |-> value]

EInt(v) == [k |-> "Int", value |-> v]

EFloat(w, f) == [k |-> "Float", value |-> [whole |-> w, frac |-> f]]

EAtom(v) == [k |-> "Atom", value |-> v]

EString(v) == [k |-> "String", value |-> v]

ETuple(elems) == [k |-> "Tuple", elems |-> elems]

ESeq(first, then) == [k |-> "Seq", first |-> first, then |-> then]

EVar(name, scope) == [k |-> "Var", name |-> name, scope |-> scope]

EFun == [k |-> "Fun"]

ENil == [k |-> "Nil"]

ECons(head, tail) == [k |-> "Cons", head |-> head, tail |-> tail]

ECall == [k |-> "Call"]

EEnum(name, args) == [k |-> "Enum", name |-> name, args |-> args]

ERecordNil == [k |-> "RecordNil"]

ERecordCons == [k |-> "RecordCons"]

ERecordSelect == [k |-> "RecordSelect"]

EModuleSelect == [k |-> "ModuleSelect"]

ECase(subject, cs) == [k |-> "Case", subject |-> subject, clauses |-> cs]

EBinOp(name, left, right) == [k |-> "BinOp", name |-> name, left |-> left, right |-> right]

ELet(p, value, then) == [k |-> "Let", pattern |-> p, value |-> value, then |-> then]

Clause(p, body) == [pattern |-> p, body |-> body]

PVar(name) == [k |-> "Var", name |-> name]

PInt(v) == [k |-> "Int", value |-> v]

PFloat(w, f) == [k |-> "Float", value |-> [whole |-> w, frac |-> f]]

PAtom(v) == [k |-> "Atom", value |-> v]

PString(v) == [k |-> "String", value |-> v]

PTuple(elems) == [k |-> "Tuple", elems |-> elems]

PNil == [k |-> "Nil"]

PCons(head, tail) == [k |-> "Cons", head |-> head, tail |-> tail]

PEnum(name, args) == [k |-> "Enum", name |-> name, args |-> args]

Arg(name) == [name |-> name]

STest(name, body) == [k |-> "Test", name |-> name, body |-> body]

SEnum(name) == [k |-> "Enum", name |-> name]

SImport(m) == [k |-> "Import", module |-> m]

SExternalType(name) == [k |-> "ExternalType", name |-> name]

SFun(public, name, args, body) ==
    [k |-> "Fun", public |-> public, name |-> name, args |-> args, body |-> body]

SExternalFun(public, name, m, fun, args) ==
    [k |-> "ExternalFun", public |-> public, name |-> name, module |-> m,
     fun |-> fun, args |-> args]

(***************************************************************************)
(* The translators (src/erl.rs)                                            *)
(***************************************************************************)
INDENT == 4

WIDTH == 80

RECURSIVE expr(_)
RECURSIVE pattern(_)

\* The function arguments of tuple, cons and enum_ (F: Fn(E, &Env) -> Document,
\* H: Fn(String) -> E) are passed by name and applied here.
call_f(f, x) == CASE f = "expr" -> expr(x) [] f = "pattern" -> pattern(x)

export(public, name, arity) ==
    IF public
    THEN append(text(<<"-","e","x","p","o","r","t","(","[">> \o name \o <<"/">> \o int_to_string(arity) \o <<"]",")",".">>), line)
    ELSE nil

atom(value) == surround(text(value), <<"'">>, <<"'">>)

string(value) == surround(text(value), <<"<","<","\"">>, <<"\"",">",">">>)

tuple(f, elems) ==
    group(surround(nest_current(concat(
        Intersperse([i \in 1..Len(elems) |-> call_f(f, elems[i])], delim(<<",">>)))),
        <<"{">>, <<"}">>))

seq(first, then) == append(append(append(expr(first), text(<<",">>)), line), expr(then))

bin_op_token(name) ==
    CASE name = "Pipe" -> <<"|",">">>
      [] name = "Lt" -> <<"<">>
      [] name = "LtEq" -> <<"=","<">>
      [] name = "Eq" -> <<"=",":","=">>
      [] name = "GtEq" -> <<">","=">>
      [] name = "Gt" -> <<">">>
      [] name = "AddInt" -> <<"+">>
      [] name = "AddFloat" -> <<"+">>
      [] name = "SubInt" -> <<"-">>
      [] name = "SubFloat" -> <<"-">>
      [] name = "MultInt" -> <<"*">>
      [] name = "MultFloat" -> <<"*">>
      [] name = "DivInt" -> <<"d","i","v">>
      [] name = "DivFloat" -> <<"/">>

bin_op(name, left, right) ==
    append(append(append(append(expr(left), break_(<<>>, <<" ">>)),
                         text(bin_op_token(name))), text(<<" ">>)), expr(right))

let_(p, value, then) ==
    append(append(append(append(append(pattern(p), text(<<" ","=">>)), break_(<<>>, <<" ">>)),
                                nest(INDENT, expr(value))), text(<<",">>)),
                  append(line, expr(then)))

cons(f, head, tail) ==
    surround(append(append(call_f(f, head), text(<<" ","|"," ">>)), call_f(f, tail)),
             <<"[">>, <<"]">>)

\* var() rendering a constant-scoped reference by its name.
var_constant_as_local(name, scope) ==
    CASE scope.k = "Local" -> text(to_camel_case(name))
      [] scope.k = "Module" -> Panic
      [] scope.k = "Constant" -> text(to_camel_case(name))

\* var() rendering a module-scoped reference as if it were local.
var_module_as_local(name, scope) ==
    CASE scope.k = "Local" -> text(to_camel_case(name))
      [] scope.k = "Module" -> text(to_camel_case(name))
      [] scope.k = "Constant" -> expr(scope.value)

var(name, scope) ==
    CASE scope.k = "Local" -> text(to_camel_case(name))
      [] scope.k = "Module" -> Panic
      [] scope.k = "Constant" -> expr(scope.value)

expr_atom(s) == EAtom(s)

\* pattern_atom() building the wrong literal.
pattern_atom_as_string(s) == PString(s)

pattern_atom(s) == PAtom(s)

call_h(h, s) == CASE h = "expr_atom" -> expr_atom(s) [] h = "pattern_atom" -> pattern_atom(s)

enum_(h, to_doc, name, args) ==
    IF Len(args) = 0
    THEN call_f(to_doc, call_h(h, to_snake_case(name)))
    ELSE tuple(to_doc, <<call_h(h, to_snake_case(name))>> \o args)

clause(c) ==
    append(append(append(pattern(c.pattern), text(<<" ","-",">">>)), break_(<<>>, <<" ">>)),
           group(nest(INDENT, expr(c.body))))

\* clauses() with the line break left out of the separator.
clauses_without_line(cs) ==
    concat(Intersperse([i \in 1..Len(cs) |-> clause(cs[i])],
                       append(text(<<";">>), break_(<<NL>>, <<>>))))

clauses(cs) ==
    concat(Intersperse([i \in 1..Len(cs) |-> clause(cs[i])],
                       append(append(text(<<";">>), line), break_(<<NL>>, <<>>))))

case(subject, cs) ==
    append(append(append(append(text(<<"c","a","s","e"," ">>), group(expr(subject))), text(<<" ","o","f">>)),
                  nest(INDENT, append(line, clauses(cs)))),
           append(line, text(<<"e","n","d">>)))

\* pattern() writing a variable pattern as it is spelled in the source.
pattern_var_verbatim(p) ==
    CASE p.k = "Var" -> text(p.name)
      [] p.k = "Int" -> text(int_to_string(p.value))
      [] p.k = "Float" -> text(float_to_string(p.value))
      [] p.k = "Atom" -> atom(p.value)
      [] p.k = "String" -> string(p.value)
      [] p.k = "Tuple" -> tuple("pattern", p.elems)
      [] p.k = "Nil" -> text(<<"[","]">>)
      [] p.k = "Cons" -> cons("pattern", p.head, p.tail)
      [] p.k = "Enum" -> enum_("pattern_atom", "pattern", p.name, p.args)

pattern(p) ==
    CASE p.k = "Var" -> var(p.name, Local)
      [] p.k = "Int" -> text(int_to_string(p.value))
      [] p.k = "Float" -> text(float_to_string(p.value))
      [] p.k = "Atom" -> atom(p.value)
      [] p.k = "String" -> string(p.value)
      [] p.k = "Tuple" -> tuple("pattern", p.elems)
      [] p.k = "Nil" -> text(<<"[","]">>)
      [] p.k = "Cons" -> cons("pattern", p.head, p.tail)
      [] p.k = "Enum" -> enum_("pattern_atom", "pattern", p.name, p.args)

expr(e) ==
    CASE e.k = "Int" -> text(int_to_string(e.value))
      [] e.k = "Float" -> text(float_to_string(e.value))
      [] e.k = "Atom" -> atom(e.value)
      [] e.k = "String" -> string(e.value)
      [] e.k = "Tuple" -> tuple("expr", e.elems)
      [] e.k = "Seq" -> seq(e.first, e.then)
      [] e.k = "Var" -> var(e.name, e.scope)
      [] e.k = "Fun" -> Panic
      [] e.k = "Nil" -> text(<<"[","]">>)
      [] e.k = "Cons" -> Panic
      [] e.k = "Call" -> Panic
      [] e.k = "Enum" -> enum_("expr_atom", "expr", e.name, e.args)
      [] e.k = "RecordNil" -> text(<<"#","{","}">>)
      [] e.k = "RecordCons" -> Panic
      [] e.k = "RecordSelect" -> Panic
      [] e.k = "ModuleSelect" -> Panic
      [] e.k = "Case" -> case(e.subject, e.clauses)
      [] e.k = "BinOp" -> bin_op(e.name, e.left, e.right)
      [] e.k = "Let" -> let_(e.pattern, e.value, e.then)

\* mod_fun() without the group around the argument list.
mod_fun_ungrouped(public, name, args, body) ==
    LET args_doc == surround(nest_current(concat(
                        Intersperse([i \in 1..Len(args) |-> text(to_camel_case(args[i].name))],
                                    delim(<<",">>)))),
                        <<"(">>, <<")">>)
        body_doc == expr(body)
    IN  append(append(append(append(append(append(
            export(public, name, Len(args)),
            line),
            text(name)),
            args_doc),
            text(<<" ","-",">">>)),
            nest(INDENT, append(line, body_doc))),
            append(text(<<".">>), line))

mod_fun(public, name, args, body) ==
    LET args_doc == group(surround(nest_current(concat(
                        Intersperse([i \in 1..Len(args) |-> text(to_camel_case(args[i].name))],
                                    delim(<<",">>)))),
                        <<"(">>, <<")">>))
        body_doc == expr(body)
    IN  append(append(append(append(append(append(
            export(public, name, Len(args)),
            line),
            text(name)),
            args_doc),
            text(<<" ","-",">">>)),
            nest(INDENT, append(line, body_doc))),
            append(text(<<".">>), line))

\* test() leaving the conditional section open.
test_without_endif(name, body) ==
    LET body_doc == expr(body)
    IN  append(append(append(append(append(append(append(
            line,
            text(<<"-","i","f","d","e","f","(","T","E","S","T",")",".">>)),
            line),
            text(name)),
            text(<<"_","t","e","s","t","(",")"," ","-",">">>)),
            nest(INDENT, append(line, body_doc))),
            text(<<".">>)),
            line)

test(name, body) ==
    LET body_doc == expr(body)
    IN  append(append(append(append(append(append(append(append(
            line,
            text(<<"-","i","f","d","e","f","(","T","E","S","T",")",".">>)),
            line),
            text(name)),
            text(<<"_","t","e","s","t","(",")"," ","-",">">>)),
            nest(INDENT, append(line, body_doc))),
            text(<<".">>)),
            line),
            append(text(<<"-","e","n","d","i","f",".">>), line))

\* The parameter names 'A', 'B', ... joined by ", ".
ext_chars(arity) ==
    Flatten(Intersperse([i \in 1..arity |-> <<u8_as_char(65 + i - 1)>>], <<","," ">>))

external_fun(public, name, m, fun, arity) ==
    LET chars == ext_chars(arity)
        header == text(name \o <<"(">> \o chars \o <<")"," ","-",">">>)
        body == text(m \o <<":">> \o fun \o <<"(">> \o chars \o <<")",".">>)
    IN  append(append(append(append(
            line,
            export(public, name, arity)),
            header),
            nest(INDENT, append(line, body))),
            line)

\* statement() with Import leaving a line break behind.
statement_import_line(s) ==
    CASE s.k = "Test" -> test(s.name, s.body)
      [] s.k = "Enum" -> nil
      [] s.k = "Import" -> line
      [] s.k = "ExternalType" -> nil
      [] s.k = "Fun" -> mod_fun(s.public, s.name, s.args, s.body)
      [] s.k = "ExternalFun" -> external_fun(s.public, s.name, s.module, s.fun, Len(s.args))

statement(s) ==
    CASE s.k = "Test" -> test(s.name, s.body)
      [] s.k = "Enum" -> nil
      [] s.k = "Import" -> nil
      [] s.k = "ExternalType" -> nil
      [] s.k = "Fun" -> mod_fun(s.public, s.name, s.args, s.body)
      [] s.k = "ExternalFun" -> external_fun(s.public, s.name, s.module, s.fun, Len(s.args))

\* The header line of module(): format!("-module({}).", name).
module_header(name) == text(<<"-","m","o","d","u","l","e","(">> \o name \o <<")",".">>)

\* module_doc() with the statements' documents in reverse.
module_doc_reversed(name, docs) ==
    append(append(module_header(name), line),
           concat([j \in 1..Len(docs) |-> docs[Len(docs) + 1 - j]]))

\* The document module() hands to format(): the header, a line break and
\* the statements' documents in order.
module_doc(name, docs) == append(append(module_header(name), line), concat(docs))

\* module(): the rendered text, or Panic when a statement's translation panics.
module(name, statements) ==
    LET doc == module_doc(name, [i \in 1..Len(statements) |-> statement(statements[i])])
    IN  IF IsPanic(doc) THEN Panic ELSE [k |-> "Ok", s |-> format(WIDTH, doc)]

(***************************************************************************)
(* Bounds and the inputs drawn within them                                 *)
(***************************************************************************)
\* Statements per module, in the modules built from StatementPool.
MaxStatements == 3

\* Expression contexts nested around a core expression in a function body.
MaxDepth == 1

\* Arguments of a function, in the modules that exercise the argument list.
MaxArgs == 2

\* Declared argument types of a foreign function.
MaxArity == 27

\* Arguments of a constructor, in the modules that match a constructor
\* pattern against the same constructor's expression.
MaxEnumArgs == 2

Rep(c, n) == [i \in 1..n |-> c]

SeqsUpTo(S, n) == UNION {[1..m -> S] : m \in 0..n}

One == EInt(1)

Two == EInt(2)

Ok == EAtom(<<"o","k">>)

\* An atom too long to share a line with anything else.
LongAtom == EAtom(Rep("a", WIDTH))

ShortName == <<"m">>

\* A module name whose header line alone exceeds the width.
LongName == Rep("m", WIDTH)

Unsupported ==
    {EVar(<<"x">>, ModuleScope), EFun, ECall, ERecordCons, ERecordSelect, EModuleSelect}

Cases ==
    {ECase(One, <<Clause(PInt(1), Ok)>>),
     ECase(One, <<Clause(PInt(1), One), Clause(PAtom(<<"o","k">>), Two)>>),
     ECase(EVar(<<"x">>, Local),
           <<Clause(PEnum(<<"O","k">>, <<PVar(<<"v">>)>>), EVar(<<"v">>, Local)),
             Clause(PEnum(<<"E","r","r","o","r">>, <<>>), Two),
             Clause(PCons(PInt(1), PNil), EAtom(<<"l","a","s","t">>))>>)}

Cores ==
    {One, EFloat(2, 0), Ok, EString(<<"h","e","l","l","o">>), ENil, ERecordNil,
     EVar(<<"o","n","e","_","t","w","o">>, Local),
     ECons(One, ENil), ECons(One, ECons(Two, ENil)),
     EEnum(<<"N","i","l">>, <<>>), EEnum(<<"O","k">>, <<One, EFloat(2, 0)>>),
     EBinOp("AddInt", One, Two),
     ELet(PVar(<<"O","n","e","T","w","o">>), One, EVar(<<"o","n","e","_","t","w","o">>, Local)),
     EVar(<<"s","o","m","e","_","a","r","g">>, Constant(EAtom(<<"h","e","l","l","o">>)))}
    \cup Unsupported \cup Cases

Contexts == {"tuple", "wide", "seq", "let", "then", "binop", "subject", "clause",
             "enum", "constant"}

Ctx(c, e) ==
    CASE c = "tuple" -> ETuple(<<One, e>>)
      [] c = "wide" -> ETuple(<<LongAtom, e>>)
      [] c = "seq" -> ESeq(e, One)
      [] c = "let" -> ELet(PVar(<<"x">>), e, One)
      [] c = "then" -> ELet(PTuple(<<PVar(<<"x">>), PNil>>), One, e)
      [] c = "binop" -> EBinOp("DivInt", One, e)
      [] c = "subject" -> ECase(e, <<Clause(PInt(1), One)>>)
      [] c = "clause" -> ECase(One, <<Clause(PInt(1), e), Clause(PVar(<<"x">>), One)>>)
      [] c = "enum" -> EEnum(<<"O","k">>, <<e>>)
      [] c = "constant" -> EVar(<<"x">>, Constant(e))

RECURSIVE Bodies(_)
Bodies(d) ==
    IF d = 0 THEN Cores
    ELSE LET inner == Bodies(d - 1)
         IN  inner \cup {Ctx(c, e) : c \in Contexts, e \in inner}

StatementPool ==
    {SEnum(<<"A","n","y">>), SImport(<<"r","e","s","u","l","t">>), SExternalType(<<"A","n","y">>),
     SFun(TRUE, <<"f">>, <<Arg(<<"s","o","m","e","_","a","r","g">>)>>, EVar(<<"s","o","m","e","_","a","r","g">>, Local)),
     SFun(FALSE, <<"g">>, <<>>, ECall),
     SExternalFun(TRUE, <<"m","a","p">>, <<"m","a","p","s">>, <<"n","e","w">>, <<>>),
     STest(<<"b","a","n","g">>, Ok)}

ArgNames ==
    {<<"a">>, <<"a","r","g","_","o","n","e">>, <<"a","r","g","_">> \o Rep("x", 33), <<"a","r","g","_">> \o Rep("y", 34), <<"O","n","e","T","w","o">>}

TypePool == {"Int", "Float"}

Input(name, statements) == [name |-> name, statements |-> statements]

\* Modules of up to MaxStatements statements of every kind.
StatementInputs ==
    {Input(ShortName, ss) : ss \in SeqsUpTo(StatementPool, MaxStatements)}

\* One function or test whose body is a core expression inside up to
\* MaxDepth contexts; under the long module name, the plain cores.
BodyInputs ==
    {Input(ShortName, <<SFun(FALSE, <<"f">>, <<>>, e)>>) : e \in Bodies(MaxDepth)}
    \cup {Input(ShortName, <<STest(<<"t">>, e)>>) : e \in Bodies(MaxDepth - 1)}
    \cup {Input(LongName, <<SFun(FALSE, <<"f">>, <<>>, e)>>) : e \in Cores}

\* One function with up to MaxArgs arguments.
ArgInputs ==
    {Input(ShortName, <<SFun(p, <<"f">>, [i \in 1..Len(as) |-> Arg(as[i])], Ok)>>) :
        p \in BOOLEAN, as \in SeqsUpTo(ArgNames, MaxArgs)}

\* One foreign function with up to MaxArity declared argument types.
ArityInputs ==
    {Input(ShortName, <<SExternalFun(p, <<"e","x","t">>, <<"l","i","s","t","s">>, <<"m","a","p">>, Rep(t, n))>>) :
        p \in BOOLEAN, t \in TypePool, n \in 0..MaxArity}

\* Literals that are written alike as an expression and as a pattern.
Literals == {"int", "atom", "nil"}

LitExpr(l) == CASE l = "int" -> One [] l = "atom" -> Ok [] l = "nil" -> ENil

LitPattern(l) == CASE l = "int" -> PInt(1) [] l = "atom" -> PAtom(<<"o","k">>) [] l = "nil" -> PNil

LitText(l) == CASE l = "int" -> <<"1">> [] l = "atom" -> <<"'","o","k","'">> [] l = "nil" -> <<"[","]">>

EnumNames == {<<"N","i","l">>, <<"O","k">>, <<"N","o","t","F","o","u","n","d">>}

\* let <constructor pattern> = <the same constructor applied> in 1
EnumBody(n, ls) ==
    ELet(PEnum(n, [j \in 1..Len(ls) |-> LitPattern(ls[j])]),
         EEnum(n, [j \in 1..Len(ls) |-> LitExpr(ls[j])]), One)

\* One function that matches a constructor of up to MaxEnumArgs arguments.
EnumInputs ==
    {Input(ShortName, <<SFun(FALSE, <<"f">>, <<>>, EnumBody(n, ls))>>) :
        n \in EnumNames, ls \in SeqsUpTo(Literals, MaxEnumArgs)}

\* Source names, two of them with the same camel-case form.
Names == {<<"a">>, <<"x">>, <<"o","n","e","_","t","w","o">>, <<"O","n","e","T","w","o">>, <<"s","o","m","e","_","a","r","g">>}

\* f(s) -> let s = s in case s2 of s2 -> s2: each name as a binder (an
\* argument, a let pattern, a clause pattern) and as a local reference.
NameFun(s, s2) ==
    SFun(FALSE, <<"f">>, <<Arg(s)>>,
         ELet(PVar(s), EVar(s, Local),
              ECase(EVar(s2, Local), <<Clause(PVar(s2), EVar(s2, Local))>>)))

\* One function that binds and refers to two names.
NameInputs == {Input(ShortName, <<NameFun(s, s2)>>) : s, s2 \in Names}

Inputs ==
    StatementInputs \cup BodyInputs \cup ArgInputs \cup ArityInputs \cup EnumInputs
    \cup NameInputs

(***************************************************************************)
(* The run of module() on one input                                        *)
(***************************************************************************)
VARIABLES
    name,        \* module.name
    statements,  \* module.statements
    pc,          \* "map": translating statements; "done"; "panicked"
    i,           \* the statement the map is at
    docs,        \* the documents collected so far
    out,         \* the returned string; <<>> while nothing has been returned
    failure      \* the panic module() unwinds with; NoFailure while there is none

vars == <<name, statements, pc, i, docs, out, failure>>

NoFailure == [k |-> "None"]

Init ==
    /\ \E m \in Inputs : name = m.name /\ statements = m.statements
    /\ pc = "map"
    /\ i = 1
    /\ docs = <<>>
    /\ out = <<>>
    /\ failure = NoFailure

\* The map is at a statement of this kind.
At(kind) == pc = "map" /\ i <= Len(statements) /\ statements[i].k = kind

\* statement() on the statement the map is at; a panic ends the run.
Collect ==
    LET d == statement(statements[i])
    IN  IF IsPanic(d)
        THEN pc' = "panicked" /\ failure' = d /\ UNCHANGED <<i, docs>>
        ELSE pc' = pc /\ i' = i + 1 /\ docs' = Append(docs, d) /\ UNCHANGED failure

StatementTest ==
    /\ At("Test")
    /\ Collect
    /\ UNCHANGED <<name, statements, out>>

StatementEnum ==
    /\ At("Enum")
    /\ Collect
    /\ UNCHANGED <<name, statements, out>>

StatementImport ==
    /\ At("Import")
    /\ Collect
    /\ UNCHANGED <<name, statements, out>>

StatementExternalType ==
    /\ At("ExternalType")
    /\ Collect
    /\ UNCHANGED <<name, statements, out>>

StatementFun ==
    /\ At("Fun")
    /\ Collect
    /\ UNCHANGED <<name, statements, out>>

StatementExternalFun ==
    /\ At("ExternalFun")
    /\ Collect
    /\ UNCHANGED <<name, statements, out>>

\* The collected documents are assembled and rendered at 80 columns.
Format ==
    /\ pc = "map"
    /\ i > Len(statements)
    /\ out' = format(WIDTH, module_doc(name, docs))
    /\ pc' = "done"
    /\ UNCHANGED <<name, statements, i, docs, failure>>

Next ==
    \/ StatementTest
    \/ StatementEnum
    \/ StatementImport
    \/ StatementExternalType
    \/ StatementFun
    \/ StatementExternalFun
    \/ Format

Spec == Init /\ [][Next]_vars

(***************************************************************************)
(* Reading the rendered text                                               *)
(***************************************************************************)
NLPos(s) == {p \in 1..Len(s) : s[p] = NL}

LineCount(s) == Cardinality(NLPos(s)) + 1

\* Where line n of s starts and ends (the line break excluded).
LineStart(s, n) ==
    IF n = 1 THEN 1
    ELSE 1 + (CHOOSE p \in NLPos(s) : Cardinality({q \in NLPos(s) : q <= p}) = n - 1)

LineEnd(s, n) ==
    IF n = LineCount(s) THEN Len(s)
    ELSE (CHOOSE p \in NLPos(s) : Cardinality({q \in NLPos(s) : q <= p}) = n) - 1

Lines(s) == [n \in 1..LineCount(s) |-> SubSeq(s, LineStart(s, n), LineEnd(s, n))]

StartsWith(s, prefix) == Len(s) >= Len(prefix) /\ SubSeq(s, 1, Len(prefix)) = prefix

Occurs(part, s) ==
    \E p \in 1..(Len(s) - Len(part) + 1) : SubSeq(s, p, p + Len(part) - 1) = part

IsFunction(s) == s.k \in {"Fun", "ExternalFun"}

IsErased(s) == s.k \in {"Enum", "Import", "ExternalType"}

\* The text module() returns for a module that translates, <<>> otherwise.
Rendered(n, ss) == LET r == module(n, ss) IN IF IsPanic(r) THEN <<>> ELSE r.s

(***************************************************************************)
(* C1  Visibility                                                          *)
(***************************************************************************)
ExportLine(s) == <<"-","e","x","p","o","r","t","(","[">> \o s.name \o <<"/">> \o int_to_string(Len(s.args)) \o <<"]",")",".">>

\* C1: in the returned text every public Fun or ExternalFun has exactly one
\* line `-export([<name>/<arity>]).`, and the very next line starts its
\* definition `<name>(`; a private one has no export line.  (Statements of
\* one module that share name and arity share their export lines.)
C1_ExportPrecedesDefinition ==
    pc = "done" =>
        LET ls == Lines(out)
        IN  \A j \in 1..Len(statements) :
                IsFunction(statements[j]) =>
                    LET s == statements[j]
                        same == {h \in 1..Len(statements) :
                                    /\ IsFunction(statements[h])
                                    /\ statements[h].public
                                    /\ ExportLine(statements[h]) = ExportLine(s)}
                        at == {l \in 1..Len(ls) : ls[l] = ExportLine(s)}
                    IN  /\ Cardinality(at) = Cardinality(same)
                        /\ s.public =>
                              \A l \in at : /\ l < Len(ls)
                                            /\ StartsWith(ls[l + 1], s.name \o <<"(">>)

(***************************************************************************)
(* C2  Erasure                                                             *)
(***************************************************************************)
Unerased(ss) == SelectSeq(ss, LAMBDA s : ~IsErased(s))

\* C2: the returned text is the text returned for the module without its
\* Enum, Import and ExternalType statements, and one panics exactly when
\* the other does.
C2_Erasure ==
    /\ pc = "done" => out = Rendered(name, Unerased(statements)) /\ out # <<>>
    /\ pc = "panicked" => IsPanic(module(name, Unerased(statements)))

\* An erased statement sits between a function and a foreign function.
C2_Witness ==
    /\ pc = "done"
    /\ Len(statements) = 3
    /\ statements[1].k = "Fun"
    /\ IsErased(statements[2])
    /\ statements[3].k = "ExternalFun"

(***************************************************************************)
(* C3  Fail fast                                                           *)
(***************************************************************************)
RECURSIVE HasUnsupported(_)
HasUnsupported(e) ==
    CASE e.k \in {"Fun", "Call", "RecordCons", "RecordSelect", "ModuleSelect"} -> TRUE
      [] e.k = "Var" ->
            \/ e.scope.k = "Module"
            \/ e.scope.k = "Constant" /\ HasUnsupported(e.scope.value)
      [] e.k = "Tuple" -> \E j \in 1..Len(e.elems) : HasUnsupported(e.elems[j])
      [] e.k = "Enum" -> \E j \in 1..Len(e.args) : HasUnsupported(e.args[j])
      [] e.k = "Seq" -> HasUnsupported(e.first) \/ HasUnsupported(e.then)
      [] e.k = "Let" -> HasUnsupported(e.value) \/ HasUnsupported(e.then)
      [] e.k = "BinOp" -> HasUnsupported(e.left) \/ HasUnsupported(e.right)
      [] e.k = "Cons" -> HasUnsupported(e.head) \/ HasUnsupported(e.tail)
      [] e.k = "Case" ->
            \/ HasUnsupported(e.subject)
            \/ \E j \in 1..Len(e.clauses) : HasUnsupported(e.clauses[j].body)
      [] OTHER -> FALSE

HasBody(s) == s.k \in {"Fun", "Test"}

\* C3: the run never gets past a Fun or Test whose body holds an unsupported
\* construct at any depth, and so never returns a string; a run that
\* panicked has returned nothing.
C3_FailFast ==
    /\ \A j \in 1..Len(statements) :
          (HasBody(statements[j]) /\ HasUnsupported(statements[j].body))
              => (i <= j /\ pc # "done" /\ out = <<>>)
    /\ pc = "panicked" => out = <<>>

\* The run panicked on a function whose body is a constant-scoped variable
\* holding an unsupported construct.
C3_Witness ==
    /\ pc = "panicked"
    /\ statements[i].k = "Fun"
    /\ statements[i].body.k = "Var"
    /\ statements[i].body.scope.k = "Constant"
    /\ HasUnsupported(statements[i].body.scope.value)

(***************************************************************************)
(* C4  Cons expression                                                     *)
(***************************************************************************)
\* `[<head> | <tail>]` with nested cons pairs left as they are.
RECURSIVE ConsText(_)
ConsText(e) ==
    IF e.k = "Cons"
    THEN <<"[">> \o ConsText(e.head) \o <<" ","|"," ">> \o ConsText(e.tail) \o <<"]">>
    ELSE format(WIDTH, expr(e))

\* C4: a Fun or Test whose body is a cons pair of supported expressions is
\* translated (the run does not panic on it), and the returned text holds
\* `[<head> | <tail>]`, nested pairs unflattened.
C4_ConsExpression ==
    \A j \in 1..Len(statements) :
        LET s == statements[j]
        IN  (HasBody(s) /\ s.body.k = "Cons" /\ ~HasUnsupported(s.body))
                => /\ ~(pc = "panicked" /\ i = j)
                   /\ pc = "done" => Occurs(ConsText(s.body), out)

(***************************************************************************)
(* C5  Tagged-tuple symmetry                                               *)
(***************************************************************************)
\* The text of a constructor applied to literals: the quoted snake-case
\* atom alone, or a tuple that starts with it.
EnumText(n, ls) ==
    LET tag == <<"'">> \o to_snake_case(n) \o <<"'">>
    IN  IF Len(ls) = 0 THEN tag
        ELSE <<"{">> \o Flatten(Intersperse(<<tag>> \o [j \in 1..Len(ls) |-> LitText(ls[j])],
                                        <<","," ">>)) \o <<"}">>

\* C5: where a function's body matches a constructor pattern against the
\* same constructor applied to the same literals, both sides of `=` are the
\* same text: the quoted snake-case atom when there are no arguments, else a
\* tuple of that atom and the arguments in order.
C5_TaggedTupleSymmetry ==
    pc = "done" =>
        \A n \in EnumNames, ls \in SeqsUpTo(Literals, MaxEnumArgs) :
            statements = <<SFun(FALSE, <<"f">>, <<>>, EnumBody(n, ls))>>
                => out = <<"-","m","o","d","u","l","e","(","m",")",".">> \o <<NL, NL>> \o <<"f","(",")"," ","-",">">> \o <<NL>>
                         \o <<" "," "," "," ">> \o EnumText(n, ls) \o <<" ","="," ">> \o EnumText(n, ls)
                         \o <<",">> \o <<NL>> \o <<" "," "," "," ","1",".">> \o <<NL>>

\* A two-word constructor with two arguments has been rendered on both sides.
C5_Witness ==
    /\ pc = "done"
    /\ statements = <<SFun(FALSE, <<"f">>, <<>>, EnumBody(<<"N","o","t","F","o","u","n","d">>, <<"int", "nil">>))>>
    /\ Occurs(<<"{","'","n","o","t","_","f","o","u","n","d","'",","," ","1",","," ","[","]","}"," ","="," ","{","'","n","o","t","_","f","o","u","n","d","'",","," ","1",","," ","[","]","}">>, out)

(***************************************************************************)
(* C6  Width sensitivity of the argument list                              *)
(***************************************************************************)
ArgTexts(args) == [j \in 1..Len(args) |-> to_camel_case(args[j].name)]

\* `<name>(<Arg1>, <Arg2>, ...)` on one line.
CallOneLine(s) ==
    s.name \o <<"(">> \o Flatten(Intersperse(ArgTexts(s.args), <<","," ">>)) \o <<")">>

\* `<name>(<Arg1>,` and then one argument per line, each in the column just
\* after the opening parenthesis.
CallPerLine(s) ==
    s.name \o <<"(">>
    \o Flatten(Intersperse(ArgTexts(s.args), <<",">> \o <<NL>> \o Spaces(Len(s.name) + 1)))
    \o <<")">>

HeaderLines(call) == <<NL>> \o call \o <<" ","-",">">> \o <<NL>>

LoneFun == pc = "done" /\ Len(statements) = 1 /\ statements[1].k = "Fun"

RootMode == IF Len(<<"-","m","o","d","u","l","e","(">> \o name \o <<")",".">>) > WIDTH THEN "Broken" ELSE "Unbroken"

\* The mode a context hands to the expression in its hole: a tuple too wide
\* for one line is broken, a group that fits is not, and a context that
\* opens no group passes its own mode on.
ModeIn(c, mode) ==
    CASE c = "wide" -> "Broken"
      [] c \in {"tuple", "enum", "subject", "clause"} -> "Unbroken"
      [] OTHER -> mode

\* The case expressions of Cases inside up to d contexts, each with the
\* mode it is rendered in when the outermost context is rendered in `mode`.
RECURSIVE Placed(_, _)
Placed(d, mode) ==
    {[e |-> k, core |-> k, mode |-> mode] : k \in Cases}
    \cup IF d = 0 THEN {}
         ELSE UNION {{[e |-> Ctx(c, x.e), core |-> x.core, mode |-> x.mode] :
                         x \in Placed(d - 1, ModeIn(c, mode))} : c \in Contexts}

\* One clause as rendered at indentation ind.
ClauseText(c, ind, mode) ==
    fmt([b |-> <<>>, width |-> ind], WIDTH, ind, mode, clause(c), <<>>).b

\* ` of`, the clauses in order at indentation ind with `sep` between each
\* two, and `end` after the last.
CaseTail(cs, ind, mode, sep) ==
    <<" ","o","f">> \o <<NL>> \o Spaces(ind)
    \o Flatten(Intersperse([j \in 1..Len(cs) |-> ClauseText(cs[j], ind, mode)], sep))
    \o <<NL>> \o Spaces(ind - INDENT) \o <<"e","n","d">>

\* `;` and one line break.
OneBreak(ind) == <<";">> \o <<NL>> \o Spaces(ind)

\* `;`, a line break, and a blank line before the next clause.
BlankLine(ind) == <<";">> \o <<NL>> \o Spaces(ind) \o <<NL, NL>> \o Spaces(ind)

RECURSIVE Inline(_)
Inline(e) ==
    CASE e.k = "Var" -> IF e.scope.k = "Constant" THEN Inline(e.scope.value) ELSE e
      [] e.k = "Tuple" -> ETuple([j \in 1..Len(e.elems) |-> Inline(e.elems[j])])
      [] e.k = "Enum" -> EEnum(e.name, [j \in 1..Len(e.args) |-> Inline(e.args[j])])
      [] e.k = "Seq" -> ESeq(Inline(e.first), Inline(e.then))
      [] e.k = "Let" -> ELet(e.pattern, Inline(e.value), Inline(e.then))
      [] e.k = "BinOp" -> EBinOp(e.name, Inline(e.left), Inline(e.right))
      [] e.k = "Cons" -> ECons(Inline(e.head), Inline(e.tail))
      [] e.k = "Case" ->
            ECase(Inline(e.subject),
                  [j \in 1..Len(e.clauses) |->
                      Clause(e.clauses[j].pattern, Inline(e.clauses[j].body))])
      [] OTHER -> e

InlineAll(ss) ==
    [j \in 1..Len(ss) |->
        IF HasBody(ss[j]) THEN [ss[j] EXCEPT !.body = Inline(ss[j].body)] ELSE ss[j]]

\* C8: the returned text is the text returned for the module in which every
\* constant-scoped variable is replaced by the expression it holds (so the
\* variable's name leaves no trace), and one panics exactly when the other
\* does.
C8_ConstantSubstitution ==
    /\ pc = "done" => out = Rendered(name, InlineAll(statements)) /\ out # <<>>
    /\ pc = "panicked" => IsPanic(module(name, InlineAll(statements)))

\* A constant-scoped variable holding another one has been rendered as the
\* atom the inner one holds.
C8_Witness ==
    /\ LoneFun
    /\ statements[1].body.k = "Var"
    /\ statements[1].body.scope.k = "Constant"
    /\ statements[1].body.scope.value.k = "Var"
    /\ statements[1].body.scope.value.scope.k = "Constant"
    /\ Occurs(<<" "," "," "," ","'","h","e","l","l","o","'",".">>, out)
    /\ ~Occurs(<<"S","o","m","e","A","r","g">>, out)

(***************************************************************************)
(* C9  Module assembly                                                     *)
(***************************************************************************)
\* One statement rendered on its own from column 0.
StatementText(s) ==
    fmt([b |-> <<>>, width |-> 0], WIDTH, 0, RootMode, statement(s), <<>>).b

\* C9: the returned text is `-module(<name>).`, a line break, and then the
\* rendering of each statement, once each, in the order of the input.
C9_ModuleAssembly ==
    pc = "done" =>
        out = <<"-","m","o","d","u","l","e","(">> \o name \o <<")",".">> \o <<NL>>
              \o Flatten([j \in 1..Len(statements) |-> StatementText(statements[j])])

\* Three statements of three kinds have been rendered.
C9_Witness ==
    /\ pc = "done"
    /\ Len(statements) = 3
    /\ statements[1].k = "Test"
    /\ statements[2].k = "ExternalFun"
    /\ statements[3].k = "Fun"

(***************************************************************************)
(* C10  Parameters of the foreign wrapper                                  *)
(***************************************************************************)
IsLetter(c) == is_uppercase(c) \/ is_lowercase(c)

\* C10: the wrapper of an ExternalFun with n argument types has n parameters,
\* each one letter, the k-th the k-th letter of the alphabet, pairwise
\* distinct, and the same names in the same order are the arguments of the
\* call `<module>:<fun>(...)`.
C10_LetterParameters ==
    (pc = "done" /\ Len(statements) = 1 /\ statements[1].k = "ExternalFun") =>
        LET s == statements[1]
            n == Len(s.args)
            ls == Lines(out)
            h == CHOOSE l \in 1..Len(ls) : StartsWith(ls[l], s.name \o <<"(">>)
            P(k) == ls[h][Len(s.name) + 3 * k - 1]
            params == Flatten(Intersperse([k \in 1..n |-> <<P(k)>>], <<","," ">>))
        IN  /\ ls[h] = s.name \o <<"(">> \o params \o <<")"," ","-",">">>
            /\ ls[h + 1] = <<" "," "," "," ">> \o s.module \o <<":">> \o s.fun \o <<"(">> \o params \o <<")",".">>
            /\ \A k \in 1..n : IsLetter(P(k)) /\ (k <= Len(Upper) => P(k) = Upper[k])
            /\ \A k, l \in 1..n : k # l => P(k) # P(l)

(***************************************************************************)
(* C11  Test wrapper                                                       *)
(***************************************************************************)
IfdefLine == <<"-","i","f","d","e","f","(","T","E","S","T",")",".">>

EndifLine == <<"-","e","n","d","i","f",".">>

\* An expression rendered as a body: at column INDENT, followed by `.`.
BodyText(e) ==
    fmt([b |-> <<>>, width |-> INDENT], WIDTH, INDENT, RootMode, expr(e),
        <<Entry(0, RootMode, text(<<".">>))>>).b

\* The wrapper as claimed around the rendered body.
TestText(s) ==
    <<NL>> \o IfdefLine \o <<NL>>
    \o s.name \o <<"_","t","e","s","t","(",")"," ","-",">">> \o <<NL>>
    \o Spaces(INDENT) \o BodyText(s.body) \o <<".">> \o <<NL>>
    \o EndifLine \o <<NL>>

IsDirective(l) == l = IfdefLine \/ l = EndifLine

\* The `-ifdef(TEST).` and `-endif.` lines of a text, in order.
Directives(s) == SelectSeq(Lines(s), IsDirective)

Tests == {j \in 1..Len(statements) : statements[j].k = "Test"}

\* C11: every Test statement is rendered as a blank line, `-ifdef(TEST).`,
\* `<name>_test() ->`, the body indented and closed by `.`, `-endif.` and a
\* line break; no `-export` is in it; and the `-ifdef(TEST).` and `-endif.`
\* lines of the output alternate, one pair per Test statement.
C11_TestWrapper ==
    pc = "done" =>
        /\ out = <<"-","m","o","d","u","l","e","(">> \o name \o <<")",".">> \o <<NL>>
                 \o Flatten([j \in 1..Len(statements) |->
                                IF j \in Tests THEN TestText(statements[j])
                                ELSE StatementText(statements[j])])
        /\ \A j \in Tests : ~Occurs(<<"-","e","x","p","o","r","t">>, TestText(statements[j]))
        /\ LET ds == Directives(out)
           IN  /\ Len(ds) = 2 * Cardinality(Tests)
               /\ \A n \in 1..Len(ds) :
                      ds[n] = IF n % 2 = 1 THEN IfdefLine ELSE EndifLine

\* Two tests around a public function have been rendered.
C11_Witness ==
    /\ pc = "done"
    /\ Len(statements) = 3
    /\ statements[1].k = "Test"
    /\ statements[2].k = "Fun" /\ statements[2].public
    /\ statements[3].k = "Test"
    /\ Occurs(<<"-","e","x","p","o","r","t","(","[","f","/","1","]",")",".">>, out)
    /\ Occurs(<<"b","a","n","g","_","t","e","s","t","(",")"," ","-",">">>, out)

\* A test whose body is a case expression, spread over several lines, has
\* been rendered.
C11_WitnessCaseBody ==
    /\ pc = "done"
    /\ Len(statements) = 1
    /\ statements[1].k = "Test"
    /\ statements[1].body.k = "Case"

(***************************************************************************)
(* C12  What a failure tells                                               *)
(***************************************************************************)
\* C12: the failure a run propagates for a body that is an unsupported
\* construct differs from the failure of every other unsupported construct.
C12_FailureIdentifiesConstruct ==
    (pc = "panicked" /\ HasBody(statements[i]) /\ statements[i].body \in Unsupported) =>
        /\ IsPanic(failure)
        /\ \A u \in Unsupported \ {statements[i].body} : failure # expr(u)

(***************************************************************************)
(* C13  Layout of a clause body                                            *)
(***************************************************************************)
\* A document without forced line breaks, on one line.
OneLine(d) == fmt([b |-> <<>>, width |-> 0], WIDTH, 0, "Unbroken", d, <<>>).b

\* A clause that starts in column ind laid out as claimed: the body after
\* `<pattern> -> ` when that fits, and under the clause, indented, when it
\* does not.
ClauseByFit(c, ind) ==
    LET p == OneLine(pattern(c.pattern))
        b == OneLine(expr(c.body))
    IN  IF ind + Len(p) + 4 + Len(b) <= WIDTH
        THEN p \o <<" ","-",">"," ">> \o b
        ELSE p \o <<" ","-",">">> \o <<NL>> \o Spaces(ind + INDENT) \o b

\* C13: wherever a case expression occurs, each of its clauses has its body
\* on the line of `<pattern> ->` when it fits there and on the next line,
\* indented, when it does not, whether or not an enclosing group is broken.
C13_BodyPlacedByFit ==
    LoneFun =>
        \A x \in Placed(MaxDepth, RootMode) :
            statements[1].body = x.e =>
                \A j \in 1..Len(x.core.clauses) :
                    \E ind \in INDENT..WIDTH :
                        Occurs(<<NL>> \o Spaces(ind) \o ClauseByFit(x.core.clauses[j], ind), out)

(***************************************************************************)
(* C14  Binders and references                                             *)
(***************************************************************************)
\* C14: a name renders to one identifier as an argument, as the variable
\* pattern of a let, as the variable pattern of a clause and as a local
\* reference; the identifier is the camel-case form of the name, nothing
\* appended, so `OneTwo` and `one_two` both render to `OneTwo`.
C14_BindersMatchReferences ==
    \A s, s2 \in Names :
        (pc = "done" /\ statements = <<NameFun(s, s2)>>) =>
            LET ls == Lines(out)
                id == SubSeq(ls[3], 3, Len(ls[3]) - 4)
                id2 == SubSeq(ls[5], 10, Len(ls[5]) - 3)
            IN  /\ Len(ls) = 8
                /\ ls[3] = <<"f","(">> \o id \o <<")"," ","-",">">>
                /\ ls[4] = <<" "," "," "," ">> \o id \o <<" ","="," ">> \o id \o <<",">>
                /\ ls[5] = <<" "," "," "," ","c","a","s","e"," ">> \o id2 \o <<" ","o","f">>
                /\ ls[6] = <<" "," "," "," "," "," "," "," ">> \o id2 \o <<" ","-",">"," ">> \o id2
                /\ ls[7] = <<" "," "," "," ","e","n","d",".">>
                /\ id = to_camel_case(s)
                /\ id2 = to_camel_case(s2)
                /\ s \in {<<"O","n","e","T","w","o">>, <<"o","n","e","_","t","w","o">>} => id = <<"O","n","e","T","w","o">>
                /\ s2 \in {<<"O","n","e","T","w","o">>, <<"o","n","e","_","t","w","o">>} => id2 = <<"O","n","e","T","w","o">>

\* `one_two` and `OneTwo` have been rendered, each as binder and reference.
C14_Witness ==
    /\ pc = "done"
    /\ statements = <<NameFun(<<"o","n","e","_","t","w","o">>, <<"O","n","e","T","w","o">>)>>
    /\ Occurs(<<"f","(","O","n","e","T","w","o",")"," ","-",">">>, out)
    /\ Occurs(<<"O","n","e","T","w","o"," ","="," ","O","n","e","T","w","o",",">>, out)
    /\ Occurs(<<"O","n","e","T","w","o"," ","-",">"," ","O","n","e","T","w","o">>, out)

=============================================================================
